---- MODULE Spec2Model ----
(***************************************************************************)
(* Model of the NBC ad-detection evaluation harness of hush-tab            *)
(* (test_nbc_improvements.py: test_nbc_detection).                         *)
(*                                                                         *)
(* The harness loads a diagnostic bundle (user markers, network requests), *)
(* pairs the markers into ad periods, scores every ad period, then scores  *)
(* the content gap between the first two ad periods.                       *)
(***************************************************************************)
EXTENDS Integers, Sequences, FiniteSets

(***************************************************************************)
(* Bounds of the model.                                                    *)
(***************************************************************************)
MaxTime == 2
MaxMarkers == 4
MaxLongMarkers == 6
MaxTransitions == 3
MaxWeight == 3

(***************************************************************************)
(* Program constants.                                                      *)
(***************************************************************************)
WEIGHTS ==
  [ NETWORK_AD_DETECTED    |-> 45,
    PLAYER_CONTROLS_HIDDEN |-> 35,
    PROGRESS_BAR_HIDDEN    |-> 30,
    BACK_TO_LIVE_HIDDEN    |-> 25 ]

MUTE_THRESHOLD == 50

\* has_network_signal of an ad period: analytics_count > 5
AnalyticsBurst == 5
\* has_network_signal of the content gap: mediatailor_count > 5
GapMediatailorBurst == 5
\* has_network_signal of the content gap: analytics_count > 20
GapAnalyticsBurst == 20

VARIABLES
  markers,           \* data['analysis']['userMarkers']
  network_requests,  \* data['networkRequests']
  pc,                \* position in test_nbc_detection
  ad_periods,        \* the list built from the markers
  idx,               \* enumerate(ad_periods, 1) index of the next period
  period_results,    \* what is computed and reported for each ad period
  gap_results,       \* what is computed and reported for the content gap
  raised,            \* exception raised by the run, "none" if none
  mute_decision,     \* MuteDecision: state and lastConfidence
  transitions,       \* the transitions the state machine has recorded
  unmuteThreshold,   \* configured unmute threshold, at most MUTE_THRESHOLD
  weight_table,      \* WeightTable in force: signal name -> non-negative weight
  scorings           \* what the scorer returned for a set of active signals

harness_vars == << markers, network_requests, pc, ad_periods, idx,
                   period_results, gap_results, raised >>

mute_vars == << mute_decision, transitions, unmuteThreshold >>

scorer_vars == << weight_table, scorings >>

vars == << markers, network_requests, pc, ad_periods, idx,
           period_results, gap_results, raised,
           mute_decision, transitions, unmuteThreshold,
           weight_table, scorings >>

(***************************************************************************)
(* Inputs.  A marker is reduced to its timestamp field; a request's url is *)
(* reduced to the set of the two substrings the harness looks for in it.   *)
(***************************************************************************)
Timestamps == 0..MaxTime

Marker == [timestamp : Timestamps]

UrlTokens == {"mediatailor", "omtrdc.net"}

Request == [timestamp : Timestamps, isAdRelated : BOOLEAN, url : SUBSET UrlTokens]

RECURSIVE SeqsUpTo(_, _)
SeqsUpTo(S, n) ==
  IF n = 0 THEN { <<>> }
  ELSE LET shorter == SeqsUpTo(S, n - 1)
       IN  shorter \cup { Append(s, x) : s \in shorter, x \in S }

\* n copies of one request
Run(r, n) == [i \in 1..n |-> r]

RunLens == { 1, AnalyticsBurst, AnalyticsBurst + 1,
             GapAnalyticsBurst, GapAnalyticsBurst + 1 }

RequestLists == { <<>> } \cup { Run(r, n) : r \in Request, n \in RunLens }

(***************************************************************************)
(* for i in range(0, len(markers), 2): if i + 1 < len(markers): append     *)
(* i is the 0-based Python index; markers[i] is m[i + 1] here.             *)
(***************************************************************************)
RECURSIVE PairFrom(_, _, _)
PairFrom(m, i, acc) ==
  IF i >= Len(m) THEN acc
  ELSE IF i + 1 < Len(m)
       THEN PairFrom(m, i + 2,
                     Append(acc, [ start    |-> m[i + 1].timestamp,
                                   end      |-> m[i + 2].timestamp,
                                   duration |-> m[i + 2].timestamp - m[i + 1].timestamp ]))
       ELSE PairFrom(m, i + 2, acc)

\* a pairing loop that steps by one: every marker but the first also opens a window
BuildAdPeriodsSliding(m) ==
  [ k \in 1..(IF Len(m) = 0 THEN 0 ELSE Len(m) - 1) |->
      [ start    |-> m[k].timestamp,
        end      |-> m[k + 1].timestamp,
        duration |-> m[k + 1].timestamp - m[k].timestamp ] ]

BuildAdPeriods(m) == PairFrom(m, 0, <<>>)

\* a range test that leaves the end of the period out
InRangeHalfOpen(r, start, end) == start <= r.timestamp /\ r.timestamp < end

\* start <= r['timestamp'] <= end
InRange(r, start, end) == start <= r.timestamp /\ r.timestamp <= end

\* [r for r in network_requests if start <= r['timestamp'] <= end and r.get('isAdRelated')]
AdRequests(reqs, start, end) ==
  SelectSeq(reqs, LAMBDA r : InRange(r, start, end) /\ r.isAdRelated)

\* sum(1 for r in reqs if token in r['url'])
CountUrl(reqs, token) == Cardinality({ i \in DOMAIN reqs : token \in reqs[i].url })

\* a network test that takes zero mediatailor requests for a signal
HasNetworkSignalNonStrict(mediatailor_count, analytics_count) ==
  mediatailor_count >= 0 \/ analytics_count > AnalyticsBurst

\* has_network_signal = (mediatailor_count > 0 or analytics_count > 5)
HasNetworkSignal(mediatailor_count, analytics_count) ==
  mediatailor_count > 0 \/ analytics_count > AnalyticsBurst

\* has_network_signal = (mediatailor_count > 5 or analytics_count > 20)
GapHasNetworkSignal(mediatailor_count, analytics_count) ==
  mediatailor_count > GapMediatailorBurst \/ analytics_count > GapAnalyticsBurst

\* the signals list of an ad period
PeriodSignals(has_network_signal) ==
  (IF has_network_signal THEN << "network-ad-detected" >> ELSE << >>)
  \o (IF has_network_signal THEN << "controls-hidden", "back-to-live-hidden" >> ELSE << >>)

\* a confidence whose second block adds the network weight again
PeriodConfidenceDoubleNetwork(has_network_signal) ==
  LET c1 == IF has_network_signal THEN WEIGHTS.NETWORK_AD_DETECTED ELSE 0
      c2 == IF has_network_signal
            THEN c1 + WEIGHTS.NETWORK_AD_DETECTED
                    + WEIGHTS.PLAYER_CONTROLS_HIDDEN + WEIGHTS.BACK_TO_LIVE_HIDDEN
            ELSE c1
  IN  c2

\* the confidence of an ad period
PeriodConfidence(has_network_signal) ==
  LET c0 == 0
      c1 == IF has_network_signal THEN c0 + WEIGHTS.NETWORK_AD_DETECTED ELSE c0
      c2 == IF has_network_signal
            THEN c1 + WEIGHTS.PLAYER_CONTROLS_HIDDEN + WEIGHTS.BACK_TO_LIVE_HIDDEN
            ELSE c1
  IN  c2

\* a gap confidence that assumes hidden controls as the ad periods do
GapConfidenceWithControls(has_network_signal) ==
  IF has_network_signal
  THEN WEIGHTS.NETWORK_AD_DETECTED + WEIGHTS.PLAYER_CONTROLS_HIDDEN
  ELSE 0

\* the confidence of the content gap
GapConfidence(has_network_signal) ==
  IF has_network_signal THEN 0 + WEIGHTS.NETWORK_AD_DETECTED ELSE 0

\* a mute test that fires on any evidence at all
WouldMuteAnyEvidence(confidence) == confidence > 0

\* Would Mute: YES if confidence >= MUTE_THRESHOLD
WouldMute(confidence) == confidence >= MUTE_THRESHOLD

\* CORRECT - Content not muted: confidence < MUTE_THRESHOLD
ContentNotMuted(confidence) == confidence < MUTE_THRESHOLD

ScoreOfPeriod(reqs, period) ==
  LET ad_requests       == AdRequests(reqs, period.start, period.end)
      mediatailor_count == CountUrl(ad_requests, "mediatailor")
      analytics_count   == CountUrl(ad_requests, "omtrdc.net")
      has               == HasNetworkSignal(mediatailor_count, analytics_count)
      confidence        == PeriodConfidence(has)
  IN  [ start              |-> period.start,
        end                |-> period.end,
        mediatailor_count  |-> mediatailor_count,
        analytics_count    |-> analytics_count,
        has_network_signal |-> has,
        confidence         |-> confidence,
        signals            |-> PeriodSignals(has),
        would_mute         |-> WouldMute(confidence) ]

ScoreOfGap(reqs, periods) ==
  LET content_start     == periods[1].end
      content_end       == periods[2].start
      content_requests  == AdRequests(reqs, content_start, content_end)
      mediatailor_count == CountUrl(content_requests, "mediatailor")
      analytics_count   == CountUrl(content_requests, "omtrdc.net")
      has               == GapHasNetworkSignal(mediatailor_count, analytics_count)
      confidence        == GapConfidence(has)
  IN  [ start              |-> content_start,
        end                |-> content_end,
        mediatailor_count  |-> mediatailor_count,
        analytics_count    |-> analytics_count,
        has_network_signal |-> has,
        confidence         |-> confidence,
        not_muted          |-> ContentNotMuted(confidence) ]

(***************************************************************************)
(* The harness.                                                            *)
(***************************************************************************)
InitRun ==
  /\ pc = "build"
  /\ ad_periods = << >>
  /\ idx = 1
  /\ period_results = << >>
  /\ gap_results = << >>
  /\ raised = "none"

\* the state machine at rest: the harness never drives it
InitMuteIdle ==
  /\ mute_decision = [ state |-> "UNMUTED", lastConfidence |-> 0 ]
  /\ transitions = << >>
  /\ unmuteThreshold = MUTE_THRESHOLD

\* the harness scores with its own table and calls no scorer
InitScorerIdle ==
  /\ weight_table = WEIGHTS
  /\ scorings = << >>

Init ==
  /\ markers \in SeqsUpTo(Marker, MaxMarkers)
  /\ network_requests \in RequestLists
  /\ InitRun
  /\ InitMuteIdle
  /\ InitScorerIdle

\* the marker-pairing loop
BuildPeriods ==
  /\ pc = "build"
  /\ ad_periods' = BuildAdPeriods(markers)
  /\ pc' = "score"
  /\ UNCHANGED << markers, network_requests, idx, period_results, gap_results, raised >>
  /\ UNCHANGED mute_vars
  /\ UNCHANGED scorer_vars

\* one iteration of the loop over the ad periods
ScorePeriod ==
  /\ pc = "score"
  /\ idx <= Len(ad_periods)
  /\ period_results' = Append(period_results, ScoreOfPeriod(network_requests, ad_periods[idx]))
  /\ idx' = idx + 1
  /\ UNCHANGED << markers, network_requests, pc, ad_periods, gap_results, raised >>
  /\ UNCHANGED mute_vars
  /\ UNCHANGED scorer_vars

\* the content period test, after the loop, and the summary
ContentPeriodTest ==
  /\ pc = "score"
  /\ idx > Len(ad_periods)
  /\ gap_results' = IF Len(ad_periods) >= 2
                    THEN << ScoreOfGap(network_requests, ad_periods) >>
                    ELSE gap_results
  /\ pc' = "done"
  /\ UNCHANGED << markers, network_requests, ad_periods, idx, period_results, raised >>
  /\ UNCHANGED mute_vars
  /\ UNCHANGED scorer_vars

Next == BuildPeriods \/ ScorePeriod \/ ContentPeriodTest

Spec == Init /\ [][Next]_vars

(***************************************************************************)
(* The same harness on longer marker lists (three ad periods and more),    *)
(* with at most one network request.                                       *)
(***************************************************************************)
ShortRequestLists == { << >> } \cup { << r >> : r \in Request }

InitLong ==
  /\ markers \in SeqsUpTo(Marker, MaxLongMarkers)
  /\ network_requests \in ShortRequestLists
  /\ InitRun
  /\ InitMuteIdle
  /\ InitScorerIdle

SpecLong == InitLong /\ [][Next]_vars

(***************************************************************************)
(* The mute/unmute state machine the harness stands in for.  Its mute      *)
(* threshold and comparison are the harness's; the unmute threshold and    *)
(* the transition record follow the design document.                       *)
(***************************************************************************)
SignalNames == DOMAIN WEIGHTS

\* the sum of the weights a table gives to a set of signals
RECURSIVE SumOver(_, _)
SumOver(table, active) ==
  IF active = {} THEN 0
  ELSE LET s == CHOOSE x \in active : TRUE
       IN  table[s] + SumOver(table, active \ {s})

SumWeights(active) == SumOver(WEIGHTS, active)

\* every score a set of active signals can produce
Scores == { SumWeights(active) : active \in SUBSET SignalNames }

TotalWeight == SumWeights(SignalNames)

\* the scores fed to the state machine: every subset sum, and the two values
\* on either side of the mute threshold
ScoreInputs == Scores \cup { MUTE_THRESHOLD - 1, MUTE_THRESHOLD }

UnmuteThresholds == { t \in Scores : t <= MUTE_THRESHOLD } \cup { MUTE_THRESHOLD }

\* (currentState, score) -> newState
MuteStep(state, score, unmute) ==
  IF state = "UNMUTED"
  THEN (IF WouldMute(score) THEN "MUTED" ELSE "UNMUTED")
  ELSE (IF score < unmute THEN "UNMUTED" ELSE "MUTED")

InitMute ==
  /\ markers = << >>
  /\ network_requests = << >>
  /\ pc = "done"
  /\ ad_periods = << >>
  /\ idx = 1
  /\ period_results = << >>
  /\ gap_results = << >>
  /\ raised = "none"
  /\ mute_decision = [ state |-> "UNMUTED", lastConfidence |-> 0 ]
  /\ transitions = << >>
  /\ unmuteThreshold \in UnmuteThresholds
  /\ InitScorerIdle

ReceiveScore ==
  \E score \in ScoreInputs :
    LET new == MuteStep(mute_decision.state, score, unmuteThreshold)
    IN  /\ (new # mute_decision.state) => Len(transitions) < MaxTransitions
        /\ mute_decision' = [ state |-> new, lastConfidence |-> score ]
        /\ transitions' = IF new # mute_decision.state
                          THEN Append(transitions,
                                      [ from  |-> mute_decision.state,
                                        to    |-> new,
                                        score |-> score ])
                          ELSE transitions
        /\ UNCHANGED unmuteThreshold
        /\ UNCHANGED harness_vars
        /\ UNCHANGED scorer_vars

NextMute == ReceiveScore

SpecMute == InitMute /\ [][NextMute]_vars

(***************************************************************************)
(* The weighted confidence scorer over any weight table with non-negative  *)
(* weights, next to the harness's own confidence computation.  A behaviour *)
(* is either a run of the harness (with the harness's table) or calls of   *)
(* the scorer on a configured table.                                       *)
(***************************************************************************)
WeightTables == [ SignalNames -> 0..MaxWeight ] \cup { WEIGHTS }

Clamp(x, lo, hi) == IF x < lo THEN lo ELSE IF x > hi THEN hi ELSE x

\* sum of the weights of the active signals, clamped to [0, sum of all weights]
ConfidenceScore(table, active) ==
  Clamp(SumOver(table, active), 0, SumOver(table, SignalNames))

InitScorer ==
  \/ /\ markers \in SeqsUpTo(Marker, MaxMarkers)
     /\ network_requests \in RequestLists
     /\ InitRun
     /\ InitMuteIdle
     /\ InitScorerIdle
  \/ /\ markers = << >>
     /\ network_requests = << >>
     /\ pc = "scorer"
     /\ ad_periods = << >>
     /\ idx = 1
     /\ period_results = << >>
     /\ gap_results = << >>
     /\ raised = "none"
     /\ InitMuteIdle
     /\ weight_table \in WeightTables
     /\ scorings = << >>

\* one scoring pass over a set of active signals; the table does not change
ScoreSignals ==
  /\ pc = "scorer"
  /\ scorings = << >>
  /\ \E active \in SUBSET SignalNames :
        scorings' = << [ active |-> active,
                         sum    |-> SumOver(weight_table, active),
                         score  |-> ConfidenceScore(weight_table, active) ] >>
  /\ UNCHANGED weight_table
  /\ UNCHANGED harness_vars
  /\ UNCHANGED mute_vars

NextScorer == BuildPeriods \/ ScorePeriod \/ ContentPeriodTest \/ ScoreSignals

SpecScorer == InitScorer /\ [][NextScorer]_vars

(***************************************************************************)
(* Properties.                                                             *)
(***************************************************************************)
\* number of ad-related requests of the input whose url holds token and whose
\* timestamp lies in [start, end], both ends included
NumAdRelated(token, start, end) ==
  Cardinality({ i \in DOMAIN network_requests :
                  /\ network_requests[i].isAdRelated
                  /\ token \in network_requests[i].url
                  /\ start <= network_requests[i].timestamp
                  /\ network_requests[i].timestamp <= end })

NoAdRelatedIn(start, end) ==
  \A i \in DOMAIN network_requests :
     ~ ( /\ network_requests[i].isAdRelated
         /\ start <= network_requests[i].timestamp
         /\ network_requests[i].timestamp <= end )

NonDecreasing(m) ==
  \A i \in 1..(Len(m) - 1) : m[i].timestamp <= m[i + 1].timestamp

\* window k is (marker 2k-1, marker 2k), counting markers from 1
PairedTwoAtATime ==
  /\ Len(ad_periods) = Len(markers) \div 2
  /\ \A k \in DOMAIN ad_periods :
        /\ ad_periods[k].start = markers[2 * k - 1].timestamp
        /\ ad_periods[k].end = markers[2 * k].timestamp

OrderedNonOverlapping ==
  \A k \in DOMAIN ad_periods :
     /\ ad_periods[k].start <= ad_periods[k].end
     /\ (k < Len(ad_periods) => ad_periods[k].end <= ad_periods[k + 1].start)

\* C1: once the ad periods are built from a marker list of odd length, the run
\* has failed with UnpairedMarkerError (the last marker is not silently dropped).
C1_OddMarkersRaise ==
  (pc # "build" /\ Len(markers) % 2 = 1) => raised = "UnpairedMarkerError"

AlternatingLog ==
  \A i \in DOMAIN transitions :
     /\ transitions[i].from # transitions[i].to
     /\ transitions[i].from = (IF i % 2 = 1 THEN "UNMUTED" ELSE "MUTED")
     /\ (i > 1 => transitions[i].from = transitions[i - 1].to)
     /\ (transitions[i].to = "MUTED" => transitions[i].score >= MUTE_THRESHOLD)
     /\ (transitions[i].to = "UNMUTED" => transitions[i].score < unmuteThreshold)

MuteStepAllowed ==
  LET old   == mute_decision.state
      new   == mute_decision'.state
      score == mute_decision'.lastConfidence
      rec   == [ from |-> old, to |-> new, score |-> score ]
  IN  /\ (old = "UNMUTED" /\ new = "MUTED") =>
            (score >= MUTE_THRESHOLD /\ transitions' = Append(transitions, rec))
      /\ (old = "MUTED" /\ new = "UNMUTED") =>
            (score < unmuteThreshold /\ transitions' = Append(transitions, rec))
      /\ (old = new) => transitions' = transitions
      /\ (old = "UNMUTED" /\ score >= MUTE_THRESHOLD) => new = "MUTED"
      /\ (old = "MUTED" /\ score < unmuteThreshold) => new = "UNMUTED"

\* C2: starting in UNMUTED, the state changes only UNMUTED->MUTED on a score
\* >= the mute threshold and MUTED->UNMUTED on a score < the unmute threshold;
\* a score received in the target state records nothing, and the recorded
\* transitions strictly alternate.
C2_TransitionsAlternate ==
  /\ [](AlternatingLog)
  /\ [][MuteStepAllowed]_vars

\* a third transition has been recorded, and a later score that kept the
\* machine MUTED was ignored
C2_Witness ==
  /\ Len(transitions) >= 3
  /\ mute_decision.state = "MUTED"
  /\ mute_decision.lastConfidence # transitions[Len(transitions)].score
  /\ mute_decision.lastConfidence < MUTE_THRESHOLD
  /\ unmuteThreshold < MUTE_THRESHOLD

\* C3: for every weight table with non-negative weights and every set of
\* active signals, the weighted sum and the score the scorer returns lie
\* between 0 and the sum of all weights of that table; and with the harness's
\* table (sum 135) every confidence computed for an ad period or for the
\* content gap lies between 0 and 135.
C3_ConfidenceBounded ==
  /\ \A s \in DOMAIN weight_table : weight_table[s] >= 0
  /\ \A k \in DOMAIN scorings :
        /\ 0 <= scorings[k].sum
        /\ scorings[k].sum <= SumOver(weight_table, SignalNames)
        /\ 0 <= scorings[k].score
        /\ scorings[k].score <= SumOver(weight_table, SignalNames)
  /\ \A k \in DOMAIN period_results :
        0 <= period_results[k].confidence /\ period_results[k].confidence <= TotalWeight
  /\ \A k \in DOMAIN gap_results :
        0 <= gap_results[k].confidence /\ gap_results[k].confidence <= TotalWeight
  /\ TotalWeight = 135

\* a table other than the harness's, with a disabled (zero-weight) signal and
\* unequal weights, scored on some but not all of its signals, strictly
\* inside the bounds
C3_Witness ==
  /\ weight_table # WEIGHTS
  /\ \E a, b, c \in SignalNames :
        weight_table[a] = 0 /\ weight_table[b] = 1 /\ weight_table[c] = MaxWeight
  /\ scorings # << >>
  /\ scorings[1].active # {} /\ scorings[1].active # SignalNames
  /\ 0 < scorings[1].score
  /\ scorings[1].score < SumOver(weight_table, SignalNames)

\* the harness side of C3: an ad period and the content gap both scored
\* above zero in one run
C3_HarnessReached ==
  /\ pc = "done"
  /\ \E k \in DOMAIN period_results : period_results[k].confidence > 0
  /\ \E k \in DOMAIN gap_results : gap_results[k].confidence > 0

\* C4: in every scored interval, ad period or content gap, the network signal
\* is active exactly when there is an ad-delivery request or more than 5
\* analytics requests in the interval.
C4_SameNetworkRule ==
  /\ \A k \in DOMAIN period_results :
        period_results[k].has_network_signal <=>
          ( NumAdRelated("mediatailor", period_results[k].start, period_results[k].end) > 0
            \/ NumAdRelated("omtrdc.net", period_results[k].start, period_results[k].end) > 5 )
  /\ \A k \in DOMAIN gap_results :
        gap_results[k].has_network_signal <=>
          ( NumAdRelated("mediatailor", gap_results[k].start, gap_results[k].end) > 0
            \/ NumAdRelated("omtrdc.net", gap_results[k].start, gap_results[k].end) > 5 )

\* C5: a scored interval holding exactly 6 analytics requests and no
\* ad-delivery request scores 45 and is not muted.
C5_BurstOfSixScores45 ==
  /\ \A k \in DOMAIN period_results :
        ( NumAdRelated("mediatailor", period_results[k].start, period_results[k].end) = 0
          /\ NumAdRelated("omtrdc.net", period_results[k].start, period_results[k].end) = 6 )
        => ( period_results[k].confidence = 45 /\ ~ period_results[k].would_mute )
  /\ \A k \in DOMAIN gap_results :
        ( NumAdRelated("mediatailor", gap_results[k].start, gap_results[k].end) = 0
          /\ NumAdRelated("omtrdc.net", gap_results[k].start, gap_results[k].end) = 6 )
        => ( gap_results[k].confidence = 45 /\ gap_results[k].not_muted )

\* C6: when the run is over, the gap between every two consecutive ad periods
\* has been scored: n periods give n - 1 gap verdicts, gap k being
\* [period k end, period k+1 start].
C6_EveryGapScored ==
  (pc = "done" /\ Len(ad_periods) >= 2) =>
     /\ Len(gap_results) = Len(ad_periods) - 1
     /\ \A k \in DOMAIN gap_results :
           /\ gap_results[k].start = ad_periods[k].end
           /\ gap_results[k].end = ad_periods[k + 1].start

\* C7 as stated: the windows are the markers paired two at a time, and for
\* every marker list they are well formed, ordered and non-overlapping.
C7_Original ==
  pc # "build" => (PairedTwoAtATime /\ OrderedNonOverlapping)

\* C7: the windows are the markers paired two at a time (a trailing odd marker
\* gives no window), and they are well formed, ordered and non-overlapping
\* whenever the marker timestamps are non-decreasing.
C7_PairedAndOrderedWhenSorted ==
  pc # "build" =>
     /\ PairedTwoAtATime
     /\ (NonDecreasing(markers) => OrderedNonOverlapping)

\* two windows built from strictly increasing markers
C7_Witness ==
  /\ pc = "done"
  /\ NonDecreasing(markers)
  /\ Len(ad_periods) >= 2
  /\ ad_periods[1].start < ad_periods[1].end
  /\ ad_periods[1].end < ad_periods[2].start

\* C8: an ad period (or gap) with no ad-related request in range, and any interval
\* of an empty request list, scores 0 and is not muted; nothing is raised, and
\* every ad period has been scored when the run is over.
C8_EmptyWindowScoresZero ==
  /\ raised = "none"
  /\ pc = "done" => Len(period_results) = Len(ad_periods)
  /\ \A k \in DOMAIN period_results :
        ( network_requests = << >>
          \/ NoAdRelatedIn(period_results[k].start, period_results[k].end) )
        => ( /\ period_results[k].confidence = 0
             /\ period_results[k].signals = << >>
             /\ ~ period_results[k].would_mute )
  /\ \A k \in DOMAIN gap_results :
        ( network_requests = << >>
          \/ NoAdRelatedIn(gap_results[k].start, gap_results[k].end) )
        => ( gap_results[k].confidence = 0 /\ gap_results[k].not_muted )

\* the first ad period had no request in range and scored 0, and the run went
\* on to score the second one as an ad
C8_Witness ==
  /\ pc = "done"
  /\ Len(period_results) >= 2
  /\ NoAdRelatedIn(ad_periods[1].start, ad_periods[1].end)
  /\ period_results[1].confidence = 0
  /\ period_results[2].would_mute

\* C9: the content gap's confidence is 45 when more than 5 ad-delivery or more
\* than 20 analytics requests fall in the gap and 0 otherwise, and the verdict
\* is always "content not muted".
C9_GapNeverFalsePositive ==
  \A k \in DOMAIN gap_results :
     /\ gap_results[k].start = ad_periods[1].end
     /\ gap_results[k].end = ad_periods[2].start
     /\ gap_results[k].confidence \in {0, 45}
     /\ gap_results[k].confidence = 45 <=>
          ( NumAdRelated("mediatailor", ad_periods[1].end, ad_periods[2].start) > 5
            \/ NumAdRelated("omtrdc.net", ad_periods[1].end, ad_periods[2].start) > 20 )
     /\ gap_results[k].confidence < MUTE_THRESHOLD
     /\ gap_results[k].not_muted

\* a gap holding more than 20 analytics requests, and no ad-delivery request,
\* scored 45
C9_Witness ==
  /\ gap_results # << >>
  /\ gap_results[1].confidence = 45
  /\ NumAdRelated("mediatailor", ad_periods[1].end, ad_periods[2].start) = 0
  /\ NumAdRelated("omtrdc.net", ad_periods[1].end, ad_periods[2].start) > 20

\* C10: an ad period's confidence is 0 or 105; the two DOM signals are listed
\* exactly when the network signal is; and the verdict is "mute" exactly when
\* at least one ad-related mediatailor request, or more than 5 ad-related
\* omtrdc.net requests, lie in [start, end], both ends included.
C10_PeriodConfidence ==
  \A k \in DOMAIN period_results :
     LET r   == period_results[k]
         net == \/ NumAdRelated("mediatailor", ad_periods[k].start, ad_periods[k].end) > 0
                \/ NumAdRelated("omtrdc.net", ad_periods[k].start, ad_periods[k].end) > 5
     IN  /\ r.confidence \in {0, 105}
         /\ r.signals \in { << >>,
                            << "network-ad-detected", "controls-hidden", "back-to-live-hidden" >> }
         /\ r.has_network_signal <=> net
         /\ r.would_mute <=> net
         /\ r.confidence = 105 <=> net
         /\ r.signals # << >> <=> net

\* one ad period muted on an analytics burst alone, with a request on the
\* period's end, and another ad period scored 0
C10_Witness ==
  \E i, j \in DOMAIN period_results :
     /\ period_results[i].confidence = 105
     /\ period_results[i].mediatailor_count = 0
     /\ \E n \in DOMAIN network_requests :
           network_requests[n].timestamp = ad_periods[i].end
     /\ period_results[j].confidence = 0

====
